---- MODULE Spec2Model ----
(***************************************************************************)
(* DRIVR backend: segment performance records, the segment leaderboard and *)
(* the session track (session_points), as state machines over the tables   *)
(* of the PostgreSQL schema.  Every db.query of a route handler is one     *)
(* atomic step: the handlers run no transaction, so the steps of two       *)
(* requests interleave freely.                                             *)
(***************************************************************************)
EXTENDS Integers, Sequences, FiniteSets, TLC

(***************************************************************************)
(* Bounds of the model.                                                    *)
(***************************************************************************)
MaxSessions == 3      \* rows of the sessions table
MaxSegments == 3      \* rows of the segments table
MaxProcs    == 2      \* concurrent matchAndRecord invocations
MaxLimit    == 2      \* largest explicit ?limit= of a leaderboard request
MaxOffset   == 1      \* largest ?offset= a client sends with a leaderboard request
MaxLive     == 2      \* sessions that receive requests; the others are at rest
MaxReqs     == 2      \* session-route requests in flight at once
MaxPoints   == 3      \* GPS samples sent for one session
MaxBatch    == 2      \* samples in one batch request
MaxRecords  == 3      \* INSERT statements the clients of segment_records issue
MaxDuration == 2      \* largest duration_seconds of an inserted row
MaxTrack    == 6      \* samples of a track handed to the Segment Matcher
MaxUsers    == 2      \* rows of the users table
MaxRoute    == 3      \* points of the route of a POST /segments request
MaxCoord    == 2      \* distinct positions a route point can have
MaxVehicles == 3      \* rows of the vehicles table
MaxFriendRows == 3    \* rows ever inserted into friendships
MaxTokens   == 4      \* rows of the refresh_tokens table

Min(a, b) == IF a <= b THEN a ELSE b

Sessions == 1..MaxSessions
Segments == 1..MaxSegments
Procs    == 1..MaxProcs
Reqs     == 1..MaxReqs
Live     == 1..Min(MaxLive, MaxSessions)
Users    == 1..MaxUsers

\* CREATE TYPE session_status AS ENUM (...)
session_status == {"active", "paused", "completed", "cancelled"}

(***************************************************************************)
(* GPS samples and tracks.  A sample carries its timestamp and, for every  *)
(* segment of the catalog, how the Segment Matcher classifies it:          *)
(*   "off"    farther from the centerline than the detection tolerance,    *)
(*   "on"     on the segment,                                              *)
(*   "start"  on the segment and within tolerance of its start point,      *)
(*   "end"    on the segment and within tolerance of its end point.        *)
(***************************************************************************)
Zones == {"off", "on", "start", "end"}

Smp(ts, s, z) == [ts |-> ts, zone |-> [x \in Segments |-> IF x = s THEN z ELSE "off"]]

\* The tracks the sessions of the model have driven.
TrackPool ==
    << \* segment 1 in 2 s, then segment 2 in 1 s, then segment 3 in 1 s
      << Smp(0, 1, "start"), Smp(1, 1, "on"), Smp(2, 1, "end"),
         Smp(3, 2, "start"), Smp(4, 2, "end"),
         Smp(5, 3, "start"), Smp(6, 3, "end") >>,
      \* segment 1 in 1 s after an abandoned attempt; segment 2 with two
      \* samples of the same timestamp (a zero duration)
      << Smp(0, 1, "start"), Smp(1, 1, "off"), Smp(2, 1, "off"),
         Smp(3, 1, "start"), Smp(4, 1, "end"),
         Smp(5, 2, "start"), Smp(5, 2, "end") >>,
      \* segment 1 in 2 s, one noisy sample on the way; segment 2 never entered
      << Smp(0, 1, "start"), Smp(1, 1, "off"), Smp(2, 1, "end") >> >>

\* The track of session t, as the session provider returns it.
Track(t) == TrackPool[((t - 1) % Len(TrackPool)) + 1]

OnSegment(smp, s) == smp.zone[s] # "off"
NearStart(smp, s) == smp.zone[s] = "start"
\* A matcher blind to direction: either end point closes a traversal.
EitherEnd(smp, s) == smp.zone[s] \in {"start", "end"}

NearEnd(smp, s)   == smp.zone[s] = "end"

NoTraversal == << >>

RECURSIVE FindEntry(_, _, _)
RECURSIVE FindExit(_, _, _, _, _)

\* Looks, from sample i on, for the first on-segment sample near the start point.
FindEntry(tr, s, i) ==
    IF i > Len(tr) THEN NoTraversal
    ELSE IF NearStart(tr[i], s) THEN FindExit(tr, s, i, i + 1, 0)
    ELSE FindEntry(tr, s, i + 1)

\* A matcher without noise tolerance: the first off-segment sample
\* invalidates the attempt.
FindExitStrict(tr, s, e, j, off) ==
    IF j > Len(tr) THEN NoTraversal
    ELSE IF NearEnd(tr[j], s) THEN << e, j >>
    ELSE IF ~OnSegment(tr[j], s) THEN FindEntry(tr, s, j + 1)
    ELSE FindExit(tr, s, e, j + 1, 0)

\* Walks forward from entry e; off counts the off-segment samples just
\* before j.  Two in a row invalidate the attempt, and the search for a new
\* entry resumes after the invalidation point.
FindExit(tr, s, e, j, off) ==
    IF j > Len(tr) THEN NoTraversal
    ELSE IF NearEnd(tr[j], s) THEN << e, j >>
    ELSE IF ~OnSegment(tr[j], s)
         THEN IF off + 1 >= 2 THEN FindEntry(tr, s, j + 1)
              ELSE FindExit(tr, s, e, j + 1, off + 1)
    ELSE FindExit(tr, s, e, j + 1, 0)

\* A matcher that keeps the last entry sample it saw before the first exit.
LatestEntry(tr, s) ==
    LET c == FindEntry(tr, s, 1)
    IN IF Len(tr) < 2 \/ c = NoTraversal THEN NoTraversal
       ELSE LET E == { e \in c[1]..(c[2] - 1) : NearStart(tr[e], s) }
            IN << CHOOSE e \in E : \A f \in E : f <= e, c[2] >>

\* Segment Matcher: the first completed traversal of segment s, if any.
MatchSegment(tr, s) ==
    IF Len(tr) < 2 THEN NoTraversal ELSE FindEntry(tr, s, 1)

\* Performance Extractor: whole seconds from the entry to the exit sample.
Duration(tr, c) == tr[c[2]].ts - tr[c[1]].ts

\* The centerline of every third segment of the catalog has a single point.
CenterlinePoints(s) == IF s % 3 = 0 THEN 1 ELSE 2

\* Malformed segment geometry: fewer than 2 centerline points.
MalformedGeometry(s) == CenterlinePoints(s) < 2

\* A matching run that gives up on the first fault.
AllOrNothing(tr) ==
    IF \E s \in Segments :
          /\ MatchSegment(tr, s) # NoTraversal
          /\ MalformedGeometry(s) \/ Duration(tr, MatchSegment(tr, s)) <= 0
    THEN {}
    ELSE { s \in Segments : MatchSegment(tr, s) # NoTraversal }

\* The segments a track yields a Performance Record skeleton for.  A segment
\* of malformed geometry and a candidate of zero or negative duration are
\* DataIntegrityFaults: that candidate is dropped, the others are kept.
Candidates(tr) ==
    { s \in Segments :
        /\ ~MalformedGeometry(s)
        /\ MatchSegment(tr, s) # NoTraversal
        /\ Duration(tr, MatchSegment(tr, s)) > 0 }

CandidateDuration(tr, s) == Duration(tr, MatchSegment(tr, s))

(***************************************************************************)
(* State.                                                                  *)
(***************************************************************************)
VARIABLES
    status,     \* sessions.status, per session
    points,     \* session_points.sequence_number per session, in insertion order
    req,        \* per request slot, the session-route handler it is running
    totalUser,      \* users.total_sessions
    totalVehicle,   \* vehicles.total_sessions
    records,    \* the rows of segment_records
    lock,       \* per segment, the invocation holding its insert-and-count lock
    sqlstate,   \* SQLSTATE of the last INSERT INTO segment_records
    mr,         \* per invocation slot, the state of its matchAndRecord call
    board,      \* the last response of GET /segments/:id/leaderboard
    matcher,    \* one run of the Segment Matcher: its input and its output
    mine,       \* the last response of GET /segments/:id/my-records
    catalog,    \* the rows of segments created by POST /segments
    vehicles,   \* the committed rows of vehicles, in creation order
    vreq,       \* per request slot, the vehicle or start-session handler it is running
    started,    \* the rows of sessions created by POST /sessions
    visibility,     \* sessions.visibility, per session
    friendships,    \* friendships.status per pair of users, "none" without a row
    view,       \* the GET /sessions/:id request under observation and its response
    frows,      \* the rows of friendships, in creation order ("gone" once deleted)
    freq,       \* per request slot, the POST /friends/request it is running
    tokens,     \* the rows of refresh_tokens, in creation order
    areq,       \* per request slot, the POST /auth/refresh it is running
    loggedOut   \* per user, whether a logout completed since the last login

sessionVars == << points, req, totalUser, totalVehicle >>
matchVars   == << records, sqlstate, lock, mr >>
fleetVars   == << vehicles, vreq, started >>
viewVars    == << visibility, friendships, view >>
socialVars  == << frows, freq >>
authVars    == << tokens, areq, loggedOut >>
auxVars     == << matcher, mine, catalog, fleetVars, viewVars, socialVars, authVars >>
coreVars    == << status, points, req, totalUser, totalVehicle, records, sqlstate, lock, mr,
                 board >>
vars == << coreVars, auxVars >>

\* sessions.user_id and sessions.vehicle_id
SessionUser(t) == ((t - 1) % MaxUsers) + 1
SessionVehicle(t) == t

\* A free invocation slot; error is "InvalidState" when the last call of the
\* slot was refused with it.
Idle == [pc |-> "idle", error |-> "none", session |-> 0, todo |-> {}, seg |-> 0, cnt |-> 0]

SegmentRecords(recs, s) == { r \in recs : r.segment = s }
SessionRecords(recs, t) == { r \in recs : r.session = t }

(***************************************************************************)
(* The session routes: POST /sessions/:id/points, /points/batch, /pause,   *)
(* /resume, /complete and DELETE /sessions/:id/cancel, called by the owner *)
(* of the session.  A handler of several queries holds a request slot      *)
(* between its queries.                                                    *)
(***************************************************************************)
NoRequest == [op |-> "none", pc |-> "idle", session |-> 0, n |-> 0, seq |-> 0]

RECURSIVE MaxOf(_)
MaxOf(S) == IF S = {} THEN 0
            ELSE LET x == CHOOSE y \in S : TRUE
                     m == MaxOf(S \ {x})
                 IN IF x > m THEN x ELSE m

\* COALESCE(MAX(sequence_number), 0) over the rows of the session
MaxSequence(pts) == MaxOf({ pts[i] : i \in 1..Len(pts) })

\* Samples that requests in flight are still to insert for session t.
InFlight(t) ==
    LET Cnt[S \in SUBSET Reqs] ==
            IF S = {} THEN 0
            ELSE LET q == CHOOSE x \in S : TRUE
                 IN (IF req[q].session = t THEN req[q].n ELSE 0) + Cnt[S \ {q}]
    IN Cnt[Reqs]

\* POST /:id/points, first query: the session must be active.
AddPointSelect(q, t) ==
    /\ req[q].pc = "idle"
    /\ Len(points[t]) + InFlight(t) + 1 <= MaxPoints
    /\ status[t] = "active"
    /\ req' = [req EXCEPT ![q] = [NoRequest EXCEPT !.op = "point", !.pc = "seq",
                                                   !.session = t, !.n = 1]]
    /\ UNCHANGED << status, points, totalUser, totalVehicle, matchVars, board, auxVars >>

\* second query: COALESCE(MAX(sequence_number), 0) + 1 as next_seq
AddPointSeq(q) ==
    /\ req[q].op = "point" /\ req[q].pc = "seq"
    /\ req' = [req EXCEPT ![q].pc = "insert",
                          ![q].seq = MaxSequence(points[req[q].session]) + 1]
    /\ UNCHANGED << status, points, totalUser, totalVehicle, matchVars, board, auxVars >>

\* third query: INSERT INTO session_points
AddPointInsert(q) ==
    /\ req[q].op = "point" /\ req[q].pc = "insert"
    /\ points' = [points EXCEPT ![req[q].session] = Append(@, req[q].seq)]
    /\ req' = [req EXCEPT ![q] = NoRequest]
    /\ UNCHANGED << status, totalUser, totalVehicle, matchVars, board, auxVars >>

\* POST /:id/points/batch with n >= 1 points, first query.
AddBatchSelect(q, t, n) ==
    /\ req[q].pc = "idle"
    /\ Len(points[t]) + InFlight(t) + n <= MaxPoints
    /\ status[t] = "active"
    /\ req' = [req EXCEPT ![q] = [NoRequest EXCEPT !.op = "batch", !.pc = "seq",
                                                   !.session = t, !.n = n]]
    /\ UNCHANGED << status, points, totalUser, totalVehicle, matchVars, board, auxVars >>

\* second query: COALESCE(MAX(sequence_number), 0) as current_seq
AddBatchSeq(q) ==
    /\ req[q].op = "batch" /\ req[q].pc = "seq"
    /\ req' = [req EXCEPT ![q].pc = "insert",
                          ![q].seq = MaxSequence(points[req[q].session])]
    /\ UNCHANGED << status, points, totalUser, totalVehicle, matchVars, board, auxVars >>

\* third query: one INSERT of all the points, numbered current_seq + 1 ...
AddBatchInsert(q) ==
    /\ req[q].op = "batch" /\ req[q].pc = "insert"
    /\ points' = [points EXCEPT ![req[q].session] =
                     @ \o [i \in 1..req[q].n |-> req[q].seq + i]]
    /\ req' = [req EXCEPT ![q] = NoRequest]
    /\ UNCHANGED << status, totalUser, totalVehicle, matchVars, board, auxVars >>

\* POST /:id/pause: UPDATE ... WHERE status = 'active'
Pause(t) ==
    /\ status[t] = "active"
    /\ status' = [status EXCEPT ![t] = "paused"]
    /\ UNCHANGED << sessionVars, matchVars, board, auxVars >>

\* POST /:id/resume: UPDATE ... WHERE status = 'paused'
Resume(t) ==
    /\ status[t] = "paused"
    /\ status' = [status EXCEPT ![t] = "active"]
    /\ UNCHANGED << sessionVars, matchVars, board, auxVars >>

\* DELETE /:id/cancel: UPDATE ... WHERE status IN ('active', 'paused')
Cancel(t) ==
    /\ status[t] \in {"active", "paused"}
    /\ status' = [status EXCEPT ![t] = "cancelled"]
    /\ UNCHANGED << sessionVars, matchVars, board, auxVars >>

\* POST /:id/complete, first query: the session must be active or paused.
CompleteSelect(q, t) ==
    /\ req[q].pc = "idle"
    /\ status[t] \in {"active", "paused"}
    /\ req' = [req EXCEPT ![q] = [NoRequest EXCEPT !.op = "complete", !.pc = "stats",
                                                   !.session = t]]
    /\ UNCHANGED << status, points, totalUser, totalVehicle, matchVars, board, auxVars >>

\* second and third query: the statistics and the route, read from session_points
CompleteStats(q) ==
    /\ req[q].op = "complete" /\ req[q].pc = "stats"
    /\ req' = [req EXCEPT ![q].pc = "route"]
    /\ UNCHANGED << status, points, totalUser, totalVehicle, matchVars, board, auxVars >>

CompleteRoute(q) ==
    /\ req[q].op = "complete" /\ req[q].pc = "route"
    /\ req' = [req EXCEPT ![q].pc = "update"]
    /\ UNCHANGED << status, points, totalUser, totalVehicle, matchVars, board, auxVars >>

\* fourth query: UPDATE sessions SET status = 'completed' ...
\*               WHERE id = $1 AND user_id = $2
CompleteUpdate(q) ==
    /\ req[q].op = "complete" /\ req[q].pc = "update"
    /\ status' = [status EXCEPT ![req[q].session] = "completed"]
    /\ req' = [req EXCEPT ![q].pc = "user"]
    /\ UNCHANGED << points, totalUser, totalVehicle, matchVars, board, auxVars >>

\* fifth query: users.total_sessions + 1
CompleteUserStats(q) ==
    /\ req[q].op = "complete" /\ req[q].pc = "user"
    /\ totalUser' = [totalUser EXCEPT ![SessionUser(req[q].session)] = @ + 1]
    /\ req' = [req EXCEPT ![q].pc = "vehicle"]
    /\ UNCHANGED << status, points, totalVehicle, matchVars, board, auxVars >>

\* sixth query: vehicles.total_sessions + 1
CompleteVehicleStats(q) ==
    /\ req[q].op = "complete" /\ req[q].pc = "vehicle"
    /\ totalVehicle' = [totalVehicle EXCEPT ![SessionVehicle(req[q].session)] = @ + 1]
    /\ req' = [req EXCEPT ![q] = NoRequest]
    /\ UNCHANGED << status, points, totalUser, matchVars, board, auxVars >>

(***************************************************************************)
(* segment_records and its unique index.                                   *)
(***************************************************************************)
\* A plain (non-unique) index rejects nothing.
NonUniqueIndex(recs, s, t) == FALSE

\* CREATE UNIQUE INDEX idx_segment_records_unique_session
\*     ON segment_records(segment_id, session_id)
UniqueViolation(recs, s, t) ==
    \E r \in recs : r.segment = s /\ r.session = t

\* The records of segment s with a strictly smaller duration than d.
StrictlyFaster(recs, s, d) ==
    Cardinality({ r \in recs : r.segment = s /\ r.duration < d })

\* A row of segment_records: id, created_at (DEFAULT NOW()) and the columns
\* the clients supply.  Rows are numbered in insertion order.
Row(recs, s, t, d, rk) ==
    [id |-> Cardinality(recs) + 1, segment |-> s, session |-> t, user |-> SessionUser(t),
     duration |-> d, rank |-> rk, created |-> Cardinality(recs) + 1]

\* INSERT INTO segment_records: the statement fails with unique_violation
\* (SQLSTATE 23505) and inserts nothing when the pair has a row.
InsertResult(recs, row) ==
    IF UniqueViolation(recs, row.segment, row.session) THEN recs ELSE recs \cup {row}

InsertSqlState(recs, row) ==
    IF UniqueViolation(recs, row.segment, row.session) THEN "23505" ELSE "00000"

\* A client inserts a row for segment s and session t; rank_at_creation is
\* nullable and left NULL (0).
InsertRecord(s, t, d) ==
    /\ Cardinality(records) < MaxRecords
    /\ records' = InsertResult(records, Row(records, s, t, d, 0))
    /\ sqlstate' = InsertSqlState(records, Row(records, s, t, d, 0))
    /\ UNCHANGED << status, sessionVars, lock, mr, board, auxVars >>

\* A lock nobody honours.
AlwaysFree(lk, s) == TRUE

\* The per-segment mutual exclusion of insert-and-count.
LockFree(lk, s) == lk[s] = 0

\* Any status passes.
AnyStatus(st) == TRUE

\* Only completed sessions participate in matching.
Matchable(st) == st = "completed"

(***************************************************************************)
(* matchAndRecord(sessionId) and recordPerformance.                        *)
(***************************************************************************)
MatchAndRecord(p, t) ==
    /\ mr[p].pc = "idle"
    /\ IF Matchable(status[t])
       THEN /\ mr' = [mr EXCEPT ![p] = [Idle EXCEPT !.pc = "match", !.session = t,
                                                     !.todo = Candidates(Track(t))]]
       ELSE /\ mr' = [mr EXCEPT ![p] = [Idle EXCEPT !.error = "InvalidState"]]
    /\ UNCHANGED << status, sessionVars, records, sqlstate, lock, board, auxVars >>

\* recordPerformance, first step: take the lock of a segment still to record.
RecordPerformanceLock(p) ==
    /\ mr[p].pc = "match"
    /\ \E s \in mr[p].todo :
         /\ LockFree(lock, s)
         /\ lock' = [lock EXCEPT ![s] = p]
         /\ mr' = [mr EXCEPT ![p].pc = "count", ![p].seg = s]
    /\ UNCHANGED << status, sessionVars, records, sqlstate, board, auxVars >>

\* recordPerformance, second step: count the existing faster records.
RecordPerformanceCount(p) ==
    /\ mr[p].pc = "count"
    /\ mr' = [mr EXCEPT ![p].pc = "insert",
                        ![p].cnt = StrictlyFaster(records, mr[p].seg,
                                       CandidateDuration(Track(mr[p].session), mr[p].seg))]
    /\ UNCHANGED << status, sessionVars, records, sqlstate, lock, board, auxVars >>

\* recordPerformance, last step: the INSERT, refused by the unique index when
\* the pair already has a record (DuplicateTraversal); the lock is released.
RecordPerformanceInsert(p) ==
    /\ mr[p].pc = "insert"
    /\ LET s   == mr[p].seg
           t   == mr[p].session
           row == Row(records, s, t, CandidateDuration(Track(t), s), mr[p].cnt + 1)
       IN /\ records' = InsertResult(records, row)
          /\ sqlstate' = InsertSqlState(records, row)
          /\ mr' = [mr EXCEPT ![p].pc = "match", ![p].seg = 0, ![p].cnt = 0,
                              ![p].todo = @ \ {s}]
    /\ lock' = [s \in Segments |-> IF lock[s] = p THEN 0 ELSE lock[s]]
    /\ UNCHANGED << status, sessionVars, board, auxVars >>

\* Every candidate is recorded or known as a duplicate: the call returns the
\* records it created.
MatchAndRecordReturn(p) ==
    /\ mr[p].pc = "match"
    /\ mr[p].todo = {}
    /\ mr' = [mr EXCEPT ![p] = Idle]
    /\ UNCHANGED << status, sessionVars, records, sqlstate, lock, board, auxVars >>

\* The catalog or the record store cannot be reached: the run aborts, and
\* what it has committed stands.
StorageUnavailable(p) ==
    /\ mr[p].pc \in {"match", "count", "insert"}
    /\ mr' = [mr EXCEPT ![p] = Idle]
    /\ lock' = [s \in Segments |-> IF lock[s] = p THEN 0 ELSE lock[s]]
    /\ UNCHANGED << status, sessionVars, records, sqlstate, board, auxVars >>

(***************************************************************************)
(* GET /segments/:id/leaderboard.                                          *)
(***************************************************************************)
\* const { limit = 50 } = request.query
DefaultLimit == 50

\* An optional query parameter: << >> when the request does not send it.
LimitParams  == { << >> } \cup { << l >> : l \in 1..MaxLimit }
OffsetParams == { << >> } \cup { << o >> : o \in 1..MaxOffset }
Param(q, default) == IF q = << >> THEN default ELSE q[1]

\* Every arrangement of the rows S that ORDER BY sr.duration_seconds ASC
\* allows: rows of equal duration come in any order.
DurationOrders(S) ==
    { o \in [1..Cardinality(S) -> S] :
        /\ \A i, j \in 1..Cardinality(S) : i # j => o[i] # o[j]
        /\ \A i, j \in 1..Cardinality(S) : i < j => o[i].duration <= o[j].duration }

\* RANK(): rows of equal duration share a rank.
TiedRank(order, i) ==
    1 + Cardinality({ j \in 1..Len(order) : order[j].duration < order[i].duration })

\* ROW_NUMBER() OVER (ORDER BY sr.duration_seconds ASC)
RowNumber(order, i) == i

\* The LIMIT clause left out.
NoLimit(order, limit) == order

\* LIMIT $2
LimitRows(order, limit) == SubSeq(order, 1, Min(limit, Len(order)))

\* The window and the query sort by the same key, so the rows leave in
\* row-number order; the handler reads limit alone from the query string.
GetLeaderboard(s, ql, qo) ==
    /\ \E order \in DurationOrders(SegmentRecords(records, s)) :
         LET limit == Param(ql, DefaultLimit)
             page  == LimitRows(order, limit)
         IN board' = [segment |-> s, limit |-> limit, offset |-> Param(qo, 0),
                      order |-> [i \in 1..Len(order) |-> order[i].id],
                      rows |-> [i \in 1..Len(page) |->
                                  [rank |-> RowNumber(order, i), id |-> page[i].id,
                                   durationSeconds |-> page[i].duration,
                                   user |-> page[i].user]]]
    /\ UNCHANGED << status, sessionVars, matchVars, auxVars >>

(***************************************************************************)
(* Initial states of the record store: sessions of every status, each with *)
(* its track recorded, no performance recorded yet.                        *)
(***************************************************************************)
InitSessions ==
    /\ status \in [Sessions -> session_status]
    /\ points = [t \in Sessions |-> [i \in 1..Len(Track(t)) |-> i]]
    /\ req = [q \in Reqs |-> NoRequest]
    /\ totalUser = [t \in Sessions |-> IF status[t] = "completed" THEN 1 ELSE 0]
    /\ totalVehicle = [t \in Sessions |-> IF status[t] = "completed" THEN 1 ELSE 0]

\* No matcher run is under observation.
NoMatcherRun == [track |-> << >>, segment |-> 0, done |-> FALSE, cand |-> << >>]

InitMatcher == matcher = NoMatcherRun

InitMine == mine = [segment |-> 0, user |-> 0, rows |-> << >>]

InitCatalog == catalog = {}

\* No vehicle is registered, no vehicle request is running, no session started.
NoVehicleRequest ==
    [op |-> "none", pc |-> "idle", user |-> 0, id |-> 0, flag |-> FALSE, cleared |-> {},
     error |-> "none"]

InitFleet ==
    /\ vehicles = << >>
    /\ vreq = [q \in Reqs |-> NoVehicleRequest]
    /\ started = << >>

session_visibility == {"private", "friends", "public"}
friendship_status == {"pending", "accepted", "rejected", "blocked"}

\* Unordered pairs of distinct users: no_self_friendship and
\* idx_friendships_unique_pair.
Pairs == { pr \in SUBSET Users : Cardinality(pr) = 2 }

NoView == [pc |-> "idle", caller |-> 0, session |-> 0, visibility |-> "private",
           reply |-> "none"]

\* Every session has the default visibility, no friendship row exists, no
\* GET /sessions/:id is running.
InitView ==
    /\ visibility = [t \in Sessions |-> "private"]
    /\ friendships = [pr \in Pairs |-> "none"]
    /\ view = NoView

NoFriendRequest == [pc |-> "idle", requester |-> 0, addressee |-> 0, error |-> "none"]

\* No friendship row exists and no friend request is running.
InitSocial ==
    /\ frows = << >>
    /\ freq = [q \in Reqs |-> NoFriendRequest]

NoRefresh == [pc |-> "idle", token |-> 0, reply |-> "none"]

\* No refresh token is issued and no refresh request is running.
InitAuth ==
    /\ tokens = << >>
    /\ areq = [q \in Reqs |-> NoRefresh]
    /\ loggedOut = [u \in Users |-> FALSE]

InitAux ==
    InitMatcher /\ InitMine /\ InitCatalog /\ InitFleet /\ InitView /\ InitSocial /\ InitAuth

InitRecords ==
    /\ records = {}
    /\ sqlstate = "00000"
    /\ lock = [s \in Segments |-> 0]
    /\ mr = [p \in Procs |-> Idle]
    /\ board = [segment |-> 0, limit |-> 0, offset |-> 0, order |-> << >>, rows |-> << >>]

(***************************************************************************)
(* The matching specification: concurrent matchAndRecord invocations over  *)
(* the live sessions, which start in any status.                           *)
(***************************************************************************)
InitMatch ==
    /\ InitSessions
    /\ InitRecords
    /\ InitAux
    /\ \A t \in Sessions \ Live : status[t] = "completed"

NextMatch ==
    \E p \in Procs :
        \/ \E t \in Live : MatchAndRecord(p, t)
        \/ RecordPerformanceLock(p)
        \/ RecordPerformanceCount(p)
        \/ RecordPerformanceInsert(p)
        \/ MatchAndRecordReturn(p)
        \/ StorageUnavailable(p)

SpecMatch == InitMatch /\ [][NextMatch]_vars

(***************************************************************************)
(* The leaderboard specification: clients insert rows into segment_records *)
(* and read the leaderboards, one statement at a time in any order.        *)
(***************************************************************************)
NextBoard ==
    \/ \E s \in Segments, t \in Sessions, d \in 1..MaxDuration : InsertRecord(s, t, d)
    \/ \E s \in Segments, ql \in LimitParams, qo \in OffsetParams : GetLeaderboard(s, ql, qo)

\* Every session has been completed; the table is empty.
InitBoard ==
    /\ InitSessions
    /\ InitRecords
    /\ InitAux
    /\ \A t \in Sessions : status[t] = "completed"

SpecBoard == InitBoard /\ [][NextBoard]_vars

(***************************************************************************)
(* The session specification: every session has just been started (POST    *)
(* /sessions) and its owner's requests arrive in any order and overlap.    *)
(***************************************************************************)
InitSess ==
    /\ status = [t \in Sessions |-> "active"]
    /\ points = [t \in Sessions |-> << >>]
    /\ req = [q \in Reqs |-> NoRequest]
    /\ totalUser = [t \in Sessions |-> 0]
    /\ totalVehicle = [t \in Sessions |-> 0]
    /\ InitRecords
    /\ InitAux

NextSess ==
    \/ \E q \in Reqs, t \in Live : AddPointSelect(q, t)
    \/ \E q \in Reqs : AddPointSeq(q)
    \/ \E q \in Reqs : AddPointInsert(q)
    \/ \E q \in Reqs, t \in Live, n \in 1..MaxBatch : AddBatchSelect(q, t, n)
    \/ \E q \in Reqs : AddBatchSeq(q)
    \/ \E q \in Reqs : AddBatchInsert(q)
    \/ \E t \in Live : Pause(t)
    \/ \E t \in Live : Resume(t)
    \/ \E t \in Live : Cancel(t)
    \/ \E q \in Reqs, t \in Live : CompleteSelect(q, t)
    \/ \E q \in Reqs : CompleteStats(q)
    \/ \E q \in Reqs : CompleteRoute(q)
    \/ \E q \in Reqs : CompleteUpdate(q)
    \/ \E q \in Reqs : CompleteUserStats(q)
    \/ \E q \in Reqs : CompleteVehicleStats(q)

SpecSess == InitSess /\ [][NextSess]_vars

(***************************************************************************)
(* GET /segments/:id/my-records, and the specification of its readers:     *)
(* clients insert rows into segment_records and users read their own.      *)
(***************************************************************************)
\* The WHERE clause without the user.
AnyUserRecords(recs, s, u) == SegmentRecords(recs, s)

\* WHERE sr.segment_id = $1 AND sr.user_id = $2
UserRecords(recs, s, u) == { r \in recs : r.segment = s /\ r.user = u }

\* The caller u is request.user.sub, set by authMiddleware.
GetUserRecords(s, u) ==
    /\ \E order \in DurationOrders(UserRecords(records, s, u)) :
         mine' = [segment |-> s, user |-> u,
                  rows |-> [i \in 1..Len(order) |->
                              [id |-> order[i].id, durationSeconds |-> order[i].duration]]]
    /\ UNCHANGED << coreVars, viewVars, socialVars, authVars, matcher, catalog, fleetVars >>

NextMine ==
    \/ \E s \in Segments, t \in Sessions, d \in 1..MaxDuration : InsertRecord(s, t, d)
    \/ \E s \in Segments, u \in Users : GetUserRecords(s, u)

SpecMine == InitBoard /\ [][NextMine]_vars

(***************************************************************************)
(* POST /segments.  A route point is a position on a line; the length of   *)
(* a route is the sum of the distances between consecutive points, as      *)
(* ST_Length computes it.                                                  *)
(***************************************************************************)
Positions == 1..MaxCoord

Routes == UNION { [1..n -> Positions] : n \in 0..MaxRoute }

Dist(a, b) == IF a >= b THEN a - b ELSE b - a

RECURSIVE ST_Length(_)
ST_Length(route) ==
    IF Len(route) < 2 THEN 0
    ELSE Dist(route[1], route[2]) + ST_Length(Tail(route))

\* createSegmentSchema: route is an array of at least 2 points.
createSegmentSchema(route) == Len(route) >= 2

\* The handler parses the body (a ZodError creates nothing), computes
\* distance_km from the route and inserts the row; the distance query reads
\* no table, so the two queries are one step.
CreateSegment(route) ==
    /\ Cardinality(catalog) < MaxSegments
    /\ IF createSegmentSchema(route)
       THEN catalog' = catalog \cup
                {[id |-> Cardinality(catalog) + 1, route |-> route,
                  start_point |-> route[1], end_point |-> route[Len(route)],
                  distance_km |-> ST_Length(route)]}
       ELSE catalog' = catalog
    /\ UNCHANGED << coreVars, viewVars, socialVars, authVars, matcher, mine, fleetVars >>

InitSeg ==
    /\ InitSessions
    /\ InitRecords
    /\ InitAux
    /\ \A t \in Sessions : status[t] = "completed"

NextSeg == \E route \in Routes : CreateSegment(route)

SpecSeg == InitSeg /\ [][NextSeg]_vars

(***************************************************************************)
(* The matcher specification: the Segment Matcher is run once on a track   *)
(* of any shape, for one segment of the catalog.  Samples are numbered in  *)
(* sequence order and one second apart.                                    *)
(***************************************************************************)
ZoneTracks == UNION { [1..n -> Zones] : n \in 0..MaxTrack }

InitTrack ==
    /\ InitSessions
    /\ InitRecords
    /\ \A t \in Sessions : status[t] = "completed"
    /\ InitMine
    /\ InitCatalog
    /\ InitFleet
    /\ InitView
    /\ InitSocial
    /\ InitAuth
    /\ \E z \in ZoneTracks, s \in Segments :
         matcher = [NoMatcherRun EXCEPT !.track = [i \in 1..Len(z) |-> Smp(i, s, z[i])],
                                        !.segment = s]

RunMatcher ==
    /\ ~matcher.done
    /\ matcher' = [matcher EXCEPT !.done = TRUE,
                                  !.cand = MatchSegment(matcher.track, matcher.segment)]
    /\ UNCHANGED << coreVars, viewVars, socialVars, authVars, mine, catalog, fleetVars >>

NextTrack == RunMatcher

SpecTrack == InitTrack /\ [][NextTrack]_vars

(***************************************************************************)
(* The vehicle routes.  POST /vehicles and DELETE /vehicles/:id run their  *)
(* queries on the pool, one statement at a time; POST                      *)
(* /vehicles/:id/set-primary runs its three statements in one transaction, *)
(* whose writes other statements see at COMMIT and on whose rows they wait.*)
(***************************************************************************)
VehicleIds == 1..MaxVehicles

\* The rows of user u, by id.
VehiclesOf(rows, u) == { i \in DOMAIN rows : rows[i].user = u }

\* WHERE id = $1 AND user_id = $2 AND is_active = true
ActiveVehicle(rows, v, u) ==
    v \in DOMAIN rows /\ rows[v].user = u /\ rows[v].is_active

\* SELECT COUNT(*) FROM vehicles WHERE user_id = $1 AND is_active = true
ActiveCount(rows, u) == Cardinality({ i \in VehiclesOf(rows, u) : rows[i].is_active })

\* vehicles(user_id) without the unique index.
NoPrimaryIndex(rows, u, v) == FALSE

\* idx_vehicles_primary_per_user: a row v of user u cannot become primary
\* while another row of u is.
PrimaryViolation(rows, u, v) ==
    \E i \in VehiclesOf(rows, u) : i # v /\ rows[i].is_primary

\* The rows a set-primary transaction has written and not yet committed.
InTransaction(q) == vreq[q].op = "primary" /\ vreq[q].pc \in {"set", "commit"}
RowLocked(v) == \E q \in Reqs : InTransaction(q) /\ v \in vreq[q].cleared

\* The table as the transaction of slot q sees it.
TransactionView(q) ==
    [i \in DOMAIN vehicles |->
        IF i \in vreq[q].cleared
        THEN [vehicles[i] EXCEPT !.is_primary = (vreq[q].pc = "commit" /\ i = vreq[q].id)]
        ELSE vehicles[i]]

\* An insert of a primary row of u waits for a transaction that has written
\* a primary row of u: the index entry is in doubt until it ends.
PrimaryInDoubt(u) ==
    \E q \in Reqs : /\ InTransaction(q)
                    /\ \E i \in vreq[q].cleared :
                          /\ vehicles[i].user = u
                          /\ vehicles[i].is_primary \/ TransactionView(q)[i].is_primary

\* Creations that have counted and not yet inserted.
Creating == { q \in Reqs : vreq[q].op = "create" }

\* POST /vehicles, first query: the new vehicle is primary when the user
\* has no active vehicle.
CreateVehicleCount(q, u) ==
    /\ vreq[q].op = "none"
    /\ Len(vehicles) + Cardinality(Creating) < MaxVehicles
    /\ vreq' = [vreq EXCEPT ![q] = [NoVehicleRequest EXCEPT
                   !.op = "create", !.pc = "insert", !.user = u,
                   !.flag = (ActiveCount(vehicles, u) = 0)]]
    /\ UNCHANGED << coreVars, viewVars, socialVars, authVars, matcher, mine, catalog, vehicles, started >>

\* POST /vehicles, INSERT: a unique violation inserts nothing.
CreateVehicleInsert(q) ==
    /\ vreq[q].op = "create"
    /\ vreq[q].flag => ~PrimaryInDoubt(vreq[q].user)
    /\ IF vreq[q].flag /\ PrimaryViolation(vehicles, vreq[q].user, 0)
       THEN /\ vehicles' = vehicles
            /\ vreq' = [vreq EXCEPT ![q] = [NoVehicleRequest EXCEPT !.error = "23505"]]
       ELSE /\ vehicles' = Append(vehicles, [user |-> vreq[q].user, is_active |-> TRUE,
                                             is_primary |-> vreq[q].flag])
            /\ vreq' = [vreq EXCEPT ![q] = NoVehicleRequest]
    /\ UNCHANGED << coreVars, viewVars, socialVars, authVars, matcher, mine, catalog, started >>

\* DELETE /vehicles/:id, SELECT id, is_primary: NotFound ends the request.
DeleteVehicleSelect(q, u, v) ==
    /\ vreq[q].op = "none"
    /\ IF ActiveVehicle(vehicles, v, u)
       THEN vreq' = [vreq EXCEPT ![q] = [NoVehicleRequest EXCEPT
                        !.op = "delete", !.pc = "update", !.user = u, !.id = v,
                        !.flag = vehicles[v].is_primary]]
       ELSE vreq' = [vreq EXCEPT ![q] = [NoVehicleRequest EXCEPT !.error = "NotFound"]]
    /\ UNCHANGED << coreVars, viewVars, socialVars, authVars, matcher, mine, catalog, vehicles, started >>

\* DELETE /vehicles/:id, UPDATE vehicles SET is_active = false: is_primary
\* keeps its value.
DeleteVehicleUpdate(q) ==
    /\ vreq[q].op = "delete" /\ vreq[q].pc = "update"
    /\ ~RowLocked(vreq[q].id)
    /\ vehicles' = [vehicles EXCEPT ![vreq[q].id].is_active = FALSE]
    /\ vreq' = [vreq EXCEPT ![q] = IF vreq[q].flag
                                   THEN [vreq[q] EXCEPT !.pc = "reassign"]
                                   ELSE NoVehicleRequest]
    /\ UNCHANGED << coreVars, viewVars, socialVars, authVars, matcher, mine, catalog, started >>

\* DELETE /vehicles/:id, UPDATE ... ORDER BY created_at LIMIT 1: PostgreSQL's
\* UPDATE takes neither clause, the statement is rejected and changes no row.
DeleteVehicleReassign(q) ==
    /\ vreq[q].op = "delete" /\ vreq[q].pc = "reassign"
    /\ vreq' = [vreq EXCEPT ![q] = [NoVehicleRequest EXCEPT !.error = "42601"]]
    /\ UNCHANGED << coreVars, viewVars, socialVars, authVars, matcher, mine, catalog, vehicles, started >>

\* set-primary, BEGIN and SELECT: NotFound rolls back.
SetPrimarySelect(q, u, v) ==
    /\ vreq[q].op = "none"
    /\ IF ActiveVehicle(vehicles, v, u)
       THEN vreq' = [vreq EXCEPT ![q] = [NoVehicleRequest EXCEPT
                        !.op = "primary", !.pc = "clear", !.user = u, !.id = v]]
       ELSE vreq' = [vreq EXCEPT ![q] = [NoVehicleRequest EXCEPT !.error = "NotFound"]]
    /\ UNCHANGED << coreVars, viewVars, socialVars, authVars, matcher, mine, catalog, vehicles, started >>

\* set-primary, UPDATE vehicles SET is_primary = false WHERE user_id = $1.
SetPrimaryClear(q) ==
    /\ vreq[q].op = "primary" /\ vreq[q].pc = "clear"
    /\ \A i \in VehiclesOf(vehicles, vreq[q].user) : ~RowLocked(i)
    /\ vreq' = [vreq EXCEPT ![q].pc = "set",
                            ![q].cleared = VehiclesOf(vehicles, vreq[q].user)]
    /\ UNCHANGED << coreVars, viewVars, socialVars, authVars, matcher, mine, catalog, vehicles, started >>

\* set-primary, UPDATE vehicles SET is_primary = true WHERE id = $1: a
\* unique violation rolls the transaction back.
SetPrimarySet(q) ==
    /\ vreq[q].op = "primary" /\ vreq[q].pc = "set"
    /\ IF PrimaryViolation(TransactionView(q), vreq[q].user, vreq[q].id)
       THEN vreq' = [vreq EXCEPT ![q] = [NoVehicleRequest EXCEPT !.error = "23505"]]
       ELSE vreq' = [vreq EXCEPT ![q].pc = "commit"]
    /\ UNCHANGED << coreVars, viewVars, socialVars, authVars, matcher, mine, catalog, vehicles, started >>

\* set-primary, COMMIT.
SetPrimaryCommit(q) ==
    /\ vreq[q].op = "primary" /\ vreq[q].pc = "commit"
    /\ vehicles' = TransactionView(q)
    /\ vreq' = [vreq EXCEPT ![q] = NoVehicleRequest]
    /\ UNCHANGED << coreVars, viewVars, socialVars, authVars, matcher, mine, catalog, started >>

(***************************************************************************)
(* POST /sessions: three queries on the pool.  A session row is created    *)
(* with status 'active'.                                                   *)
(***************************************************************************)
Starting == { q \in Reqs : vreq[q].op = "start" }

\* SELECT id FROM vehicles WHERE id = $1 AND user_id = $2 AND is_active = true
StartSessionVehicle(q, u, v) ==
    /\ vreq[q].op = "none"
    /\ Len(started) + Cardinality(Starting) < MaxSessions
    /\ IF ActiveVehicle(vehicles, v, u)
       THEN vreq' = [vreq EXCEPT ![q] = [NoVehicleRequest EXCEPT
                        !.op = "start", !.pc = "active", !.user = u, !.id = v]]
       ELSE vreq' = [vreq EXCEPT ![q] = [NoVehicleRequest EXCEPT !.error = "BadRequest"]]
    /\ UNCHANGED << coreVars, viewVars, socialVars, authVars, matcher, mine, catalog, vehicles, started >>

\* SELECT id FROM sessions WHERE user_id = $1 AND status IN ('active', 'paused')
StartSessionActive(q) ==
    /\ vreq[q].op = "start" /\ vreq[q].pc = "active"
    /\ IF \E i \in DOMAIN started : started[i].user = vreq[q].user
       THEN vreq' = [vreq EXCEPT ![q] = [NoVehicleRequest EXCEPT !.error = "BadRequest"]]
       ELSE vreq' = [vreq EXCEPT ![q].pc = "insert"]
    /\ UNCHANGED << coreVars, viewVars, socialVars, authVars, matcher, mine, catalog, vehicles, started >>

\* INSERT INTO sessions (user_id, vehicle_id, ..., status)
StartSessionInsert(q) ==
    /\ vreq[q].op = "start" /\ vreq[q].pc = "insert"
    /\ started' = Append(started, [user |-> vreq[q].user, vehicle |-> vreq[q].id])
    /\ vreq' = [vreq EXCEPT ![q] = NoVehicleRequest]
    /\ UNCHANGED << coreVars, viewVars, socialVars, authVars, matcher, mine, catalog, vehicles >>

\* The vehicle specification: users create, delete and promote vehicles.
InitVehicles ==
    /\ InitSessions
    /\ InitRecords
    /\ InitAux
    /\ \A t \in Sessions : status[t] = "completed"

NextVehicles ==
    \/ \E q \in Reqs, u \in Users : CreateVehicleCount(q, u)
    \/ \E q \in Reqs : CreateVehicleInsert(q)
    \/ \E q \in Reqs, u \in Users, v \in VehicleIds : DeleteVehicleSelect(q, u, v)
    \/ \E q \in Reqs : DeleteVehicleUpdate(q)
    \/ \E q \in Reqs : DeleteVehicleReassign(q)
    \/ \E q \in Reqs, u \in Users, v \in VehicleIds : SetPrimarySelect(q, u, v)
    \/ \E q \in Reqs : SetPrimaryClear(q)
    \/ \E q \in Reqs : SetPrimarySet(q)
    \/ \E q \in Reqs : SetPrimaryCommit(q)

SpecVehicles == InitVehicles /\ [][NextVehicles]_vars

\* The start specification: users create and delete vehicles and start
\* sessions with them.
NextStart ==
    \/ \E q \in Reqs, u \in Users : CreateVehicleCount(q, u)
    \/ \E q \in Reqs : CreateVehicleInsert(q)
    \/ \E q \in Reqs, u \in Users, v \in VehicleIds : DeleteVehicleSelect(q, u, v)
    \/ \E q \in Reqs : DeleteVehicleUpdate(q)
    \/ \E q \in Reqs : DeleteVehicleReassign(q)
    \/ \E q \in Reqs, u \in Users, v \in VehicleIds : StartSessionVehicle(q, u, v)
    \/ \E q \in Reqs : StartSessionActive(q)
    \/ \E q \in Reqs : StartSessionInsert(q)

SpecStart == InitVehicles /\ [][NextStart]_vars

(***************************************************************************)
(* GET /sessions/:id.  The caller is request.user.sub, or 0 when           *)
(* optionalAuthMiddleware left request.user unset.  Owners complete their  *)
(* sessions with a visibility; friendship rows are written by requests of  *)
(* other users.                                                            *)
(***************************************************************************)
Callers == 0..MaxUsers

\* WHERE status = 'accepted' AND ((requester_id = $1 AND addressee_id = $2)
\*                               OR (requester_id = $2 AND addressee_id = $1))
AcceptedFriends(fr, a, b) == {a, b} \in DOMAIN fr /\ fr[{a, b}] = "accepted"

\* s.visibility === 'friends' && request.user
FriendsOnly(vis, caller) == vis = "friends" /\ caller # 0

\* POST /sessions/:id/complete: the UPDATE sets status and visibility.
CompleteWithVisibility(t, vis) ==
    /\ status[t] \in {"active", "paused"}
    /\ status' = [status EXCEPT ![t] = "completed"]
    /\ visibility' = [visibility EXCEPT ![t] = vis]
    /\ UNCHANGED << points, req, totalUser, totalVehicle, records, sqlstate, lock, mr, board,
                    matcher, mine, catalog, fleetVars, friendships, view, socialVars, authVars >>

\* A friendship row is created or its status changes.
SetFriendship(pr, st) ==
    /\ friendships[pr] # st
    /\ friendships' = [friendships EXCEPT ![pr] = st]
    /\ UNCHANGED << coreVars, socialVars, authVars, matcher, mine, catalog, fleetVars, visibility, view >>

\* GET /sessions/:id, SELECT s.* and the visibility check up to the
\* friendship query.
GetSessionSelect(caller, t) ==
    /\ view.pc = "idle"
    /\ LET vis == visibility[t]
           isOwner == caller = SessionUser(t)
           asked == [NoView EXCEPT !.caller = caller, !.session = t, !.visibility = vis]
       IN  view' = IF isOwner THEN [asked EXCEPT !.reply = "session"]
                   ELSE IF vis = "private" THEN [asked EXCEPT !.reply = "Forbidden"]
                   ELSE IF FriendsOnly(vis, caller) THEN [asked EXCEPT !.pc = "friendship"]
                   ELSE [asked EXCEPT !.reply = "session"]
    /\ UNCHANGED << coreVars, socialVars, authVars, matcher, mine, catalog, fleetVars, visibility, friendships >>

\* GET /sessions/:id, SELECT id FROM friendships.
GetSessionFriendship ==
    /\ view.pc = "friendship"
    /\ view' = [view EXCEPT !.pc = "idle",
                            !.reply = IF AcceptedFriends(friendships, view.caller,
                                                         SessionUser(view.session))
                                      THEN "session" ELSE "Forbidden"]
    /\ UNCHANGED << coreVars, socialVars, authVars, matcher, mine, catalog, fleetVars, visibility, friendships >>

InitViewSpec ==
    /\ InitSessions
    /\ InitRecords
    /\ InitAux
    /\ \A t \in Sessions : status[t] = "active"

NextView ==
    \/ \E t \in Sessions, vis \in session_visibility : CompleteWithVisibility(t, vis)
    \/ \E pr \in Pairs, st \in friendship_status : SetFriendship(pr, st)
    \/ \E caller \in Callers, t \in Sessions : GetSessionSelect(caller, t)
    \/ GetSessionFriendship

SpecView == InitViewSpec /\ [][NextView]_vars

(***************************************************************************)
(* The friend routes.  POST /friends/request checks for an existing row    *)
(* and inserts in two pool queries; accept, reject and remove are one      *)
(* statement each.                                                         *)
(***************************************************************************)
\* The rows of the table: a deleted row is no longer one.
LiveRows(rows) == { i \in DOMAIN rows : rows[i].status # "gone" }

\* WHERE (requester_id = $1 AND addressee_id = $2)
\*    OR (requester_id = $2 AND addressee_id = $1)
RowsOfPair(rows, a, b) ==
    { i \in LiveRows(rows) : {rows[i].requester, rows[i].addressee} = {a, b} }

\* A plain index on the pair refuses nothing.
NoPairIndex(rows, a, b) == FALSE

\* idx_friendships_unique_pair, on (LEAST(requester_id, addressee_id),
\* GREATEST(requester_id, addressee_id))
PairViolation(rows, a, b) == RowsOfPair(rows, a, b) # {}

\* CONSTRAINT no_self_friendship CHECK (requester_id != addressee_id)
no_self_friendship(a, b) == a # b

Requesting == { q \in Reqs : freq[q].pc = "insert" }

\* POST /friends/request up to the existing-row query: a request to oneself
\* is a BadRequest; a pair that is accepted, pending or blocked is refused.
FriendRequestCheck(q, a, b) ==
    /\ freq[q].pc = "idle"
    /\ Len(frows) + Cardinality(Requesting) < MaxFriendRows
    /\ LET existing == RowsOfPair(frows, a, b)
           refused == [NoFriendRequest EXCEPT !.requester = a, !.addressee = b]
       IN  freq' = [freq EXCEPT ![q] =
                IF a = b THEN [refused EXCEPT !.error = "BadRequest"]
                ELSE IF \E i \in existing : frows[i].status \in {"accepted", "pending"}
                     THEN [refused EXCEPT !.error = "Conflict"]
                ELSE IF \E i \in existing : frows[i].status = "blocked"
                     THEN [refused EXCEPT !.error = "Forbidden"]
                ELSE [refused EXCEPT !.pc = "insert"]]
    /\ UNCHANGED << coreVars, viewVars, authVars, matcher, mine, catalog, fleetVars, frows >>

\* POST /friends/request, INSERT INTO friendships: status defaults to
\* 'pending'; a constraint violation inserts nothing.
FriendRequestInsert(q) ==
    /\ freq[q].pc = "insert"
    /\ LET a == freq[q].requester
           b == freq[q].addressee
       IN  IF ~no_self_friendship(a, b) \/ PairViolation(frows, a, b)
           THEN /\ frows' = frows
                /\ freq' = [freq EXCEPT ![q].pc = "idle", ![q].error = "23505"]
           ELSE /\ frows' = Append(frows, [requester |-> a, addressee |-> b,
                                           status |-> "pending"])
                /\ freq' = [freq EXCEPT ![q].pc = "idle"]
    /\ UNCHANGED << coreVars, viewVars, authVars, matcher, mine, catalog, fleetVars >>

\* POST /friends/accept/:id and /friends/reject/:id:
\* UPDATE ... WHERE id = $1 AND addressee_id = $2 AND status = 'pending'
AnswerFriendRequest(u, i, st) ==
    /\ i \in DOMAIN frows
    /\ frows[i].addressee = u /\ frows[i].status = "pending"
    /\ frows' = [frows EXCEPT ![i].status = st]
    /\ UNCHANGED << coreVars, viewVars, authVars, matcher, mine, catalog, fleetVars, freq >>

\* DELETE /friends/:userId: DELETE FROM friendships WHERE status = 'accepted' AND ...
RemoveFriend(u, b) ==
    /\ \E i \in RowsOfPair(frows, u, b) : frows[i].status = "accepted"
    /\ frows' = [i \in DOMAIN frows |->
                    IF i \in RowsOfPair(frows, u, b) /\ frows[i].status = "accepted"
                    THEN [frows[i] EXCEPT !.status = "gone"] ELSE frows[i]]
    /\ UNCHANGED << coreVars, viewVars, authVars, matcher, mine, catalog, fleetVars, freq >>

InitFriends ==
    /\ InitSessions
    /\ InitRecords
    /\ InitAux
    /\ \A t \in Sessions : status[t] = "completed"

NextFriends ==
    \/ \E q \in Reqs, a \in Users, b \in Users : FriendRequestCheck(q, a, b)
    \/ \E q \in Reqs : FriendRequestInsert(q)
    \/ \E u \in Users, i \in 1..MaxFriendRows, st \in {"accepted", "rejected"} :
          AnswerFriendRequest(u, i, st)
    \/ \E u \in Users, b \in Users : RemoveFriend(u, b)

SpecFriends == InitFriends /\ [][NextFriends]_vars

(***************************************************************************)
(* The auth routes.  A refresh token is a row of refresh_tokens; from is   *)
(* the row whose token was exchanged for it (0 for a login or register),   *)
(* which the table does not store and the properties refer to.  POST       *)
(* /auth/refresh checks, revokes and inserts in three pool queries.        *)
(***************************************************************************)
\* WHERE user_id = $1 AND token_hash = $2 AND revoked_at IS NULL AND expires_at > NOW()
ValidToken(rows, t) == t \in DOMAIN rows /\ ~rows[t].revoked

Refreshing == { q \in Reqs : areq[q].pc # "idle" }

\* POST /auth/login and /auth/register: INSERT INTO refresh_tokens.
Login(u) ==
    /\ Len(tokens) + Cardinality(Refreshing) < MaxTokens
    /\ tokens' = Append(tokens, [user |-> u, revoked |-> FALSE, from |-> 0])
    /\ loggedOut' = [loggedOut EXCEPT ![u] = FALSE]
    /\ UNCHANGED << coreVars, viewVars, socialVars, matcher, mine, catalog, fleetVars, areq >>

\* POST /auth/refresh, SELECT id FROM refresh_tokens: Unauthorized without a row.
RefreshSelect(q, t) ==
    /\ areq[q].pc = "idle"
    /\ t \in DOMAIN tokens
    /\ Len(tokens) + Cardinality(Refreshing) < MaxTokens
    /\ areq' = [areq EXCEPT ![q] =
                  IF ValidToken(tokens, t)
                  THEN [NoRefresh EXCEPT !.pc = "revoke", !.token = t]
                  ELSE [NoRefresh EXCEPT !.token = t, !.reply = "Unauthorized"]]
    /\ UNCHANGED << coreVars, viewVars, socialVars, matcher, mine, catalog, fleetVars,
                    tokens, loggedOut >>

\* POST /auth/refresh, UPDATE refresh_tokens SET revoked_at = NOW() WHERE token_hash = $1
RefreshRevoke(q) ==
    /\ areq[q].pc = "revoke"
    /\ tokens' = [tokens EXCEPT ![areq[q].token].revoked = TRUE]
    /\ areq' = [areq EXCEPT ![q].pc = "insert"]
    /\ UNCHANGED << coreVars, viewVars, socialVars, matcher, mine, catalog, fleetVars,
                    loggedOut >>

\* POST /auth/refresh, INSERT INTO refresh_tokens, and the reply with the
\* new tokens.
RefreshInsert(q) ==
    /\ areq[q].pc = "insert"
    /\ tokens' = Append(tokens, [user |-> tokens[areq[q].token].user, revoked |-> FALSE,
                                 from |-> areq[q].token])
    /\ areq' = [areq EXCEPT ![q].pc = "idle", ![q].reply = "tokens"]
    /\ UNCHANGED << coreVars, viewVars, socialVars, matcher, mine, catalog, fleetVars,
                    loggedOut >>

\* POST /auth/logout:
\* UPDATE refresh_tokens SET revoked_at = NOW() WHERE user_id = $1 AND revoked_at IS NULL
Logout(u) ==
    /\ tokens' = [i \in DOMAIN tokens |->
                     IF tokens[i].user = u THEN [tokens[i] EXCEPT !.revoked = TRUE]
                     ELSE tokens[i]]
    /\ loggedOut' = [loggedOut EXCEPT ![u] = TRUE]
    /\ UNCHANGED << coreVars, viewVars, socialVars, matcher, mine, catalog, fleetVars, areq >>

InitAuthSpec ==
    /\ InitSessions
    /\ InitRecords
    /\ InitAux
    /\ \A t \in Sessions : status[t] = "completed"

NextAuth ==
    \/ \E u \in Users : Login(u)
    \/ \E q \in Reqs, t \in 1..MaxTokens : RefreshSelect(q, t)
    \/ \E q \in Reqs : RefreshRevoke(q)
    \/ \E q \in Reqs : RefreshInsert(q)
    \/ \E u \in Users : Logout(u)

SpecAuth == InitAuthSpec /\ [][NextAuth]_vars

(***************************************************************************)
(* Properties.                                                             *)
(***************************************************************************)
RecordById(recs, id) == CHOOSE r \in recs : r.id = id
RowIds(b) == { b.rows[i].id : i \in 1..Len(b.rows) }
OrderIds(b) == { b.order[i] : i \in 1..Len(b.order) }
RankIn(b, id) == b.rows[CHOOSE i \in 1..Len(b.rows) : b.rows[i].id = id].rank

\* C1: whatever inserts were attempted, concurrently or not, segment_records
\* holds at most one row per (segment id, session id) pair.
C1_UniquePerSegmentSession ==
    \A r1, r2 \in records :
        (r1.segment = r2.segment /\ r1.session = r2.session) => r1 = r2

\* An insert for a pair that has a row was attempted and refused, while the
\* table holds rows of other pairs as well.
C1_Witness ==
    /\ sqlstate = "23505"
    /\ Cardinality(records) > 1

\* The session has a record for every segment its track traversed.
FullyRecorded(t) ==
    { << r.segment, r.duration >> : r \in SessionRecords(records, t) }
        = { << s, CandidateDuration(Track(t), s) >> : s \in Candidates(Track(t)) }

C7_RankAtCreation ==
    \A r \in records :
        r.rank = 1 + Cardinality({ q \in records :
                        /\ q.segment = r.segment
                        /\ q.created < r.created
                        /\ q.duration < r.duration })

\* Two sessions record on the same segment at once: one holds the lock and
\* is about to insert, the other waits, and some record got a rank beyond 1.
C7_Witness ==
    /\ \E p, q \in Procs :
         /\ p # q
         /\ mr[p].pc = "insert"
         /\ mr[q].pc = "match"
         /\ mr[p].seg \in mr[q].todo
         /\ mr[p].session # mr[q].session
    /\ \E r \in records : r.rank > 1

\* C10: matchAndRecord on a session that is not completed ends at once with
\* InvalidState and writes nothing; no record ever belongs to a session
\* that is not completed.
C10_InvalidState ==
    [][ /\ \A p \in Procs, t \in Sessions :
             (status[t] # "completed" /\ MatchAndRecord(p, t)) =>
                 /\ records' = records
                 /\ mr'[p].pc = "idle"
                 /\ mr'[p].error = "InvalidState"
        /\ \A r \in records' : status'[r.session] = "completed"
      ]_vars

\* A call has been refused with InvalidState while records exist.
C10_Witness ==
    /\ \E p \in Procs : mr[p].error = "InvalidState"
    /\ records # {}

\* C3: a leaderboard response lists records of the requested segment in
\* non-decreasing duration order, and the entry at 0-based position i has
\* rank i+1, ties included.
C3_RankIsPosition ==
    /\ \A i \in 1..Len(board.rows) :
         /\ board.rows[i].rank = i
         /\ RecordById(records, board.rows[i].id).segment = board.segment
         /\ RecordById(records, board.rows[i].id).duration = board.rows[i].durationSeconds
    /\ \A i, j \in 1..Len(board.rows) :
         i < j => /\ board.rows[i].durationSeconds <= board.rows[j].durationSeconds
                  /\ board.rows[i].id # board.rows[j].id

\* A response with two entries of the same duration.
C3_Witness ==
    \E i, j \in 1..Len(board.rows) :
        i < j /\ board.rows[i].durationSeconds = board.rows[j].durationSeconds

\* C4: of two entries with the same duration, the record created earlier
\* comes first.
C4_TieByCreation ==
    \A i, j \in 1..Len(board.rows) :
        (i < j /\ board.rows[i].durationSeconds = board.rows[j].durationSeconds)
            => RecordById(records, board.rows[i].id).created
                 < RecordById(records, board.rows[j].id).created

\* C5: when exactly one record, strictly faster than R, was inserted between
\* two reads of a segment's leaderboard, the second read ranks it ahead of R
\* and R one place lower than the first read did.
C5_RankAfterFasterInsert ==
    [][ (board' # board /\ board'.segment = board.segment) =>
          \A R \in RowIds(board) : \A n \in RowIds(board') :
              ( /\ OrderIds(board') \ OrderIds(board) = {n}
                /\ R \in RowIds(board')
                /\ RecordById(records, n).duration < RecordById(records, R).duration )
              => /\ RankIn(board', n) < RankIn(board', R)
                 /\ RankIn(board', R) = RankIn(board, R) + 1
      ]_vars

C8_TrackFinalized ==
    [][ \A t \in Sessions :
          status[t] \in {"completed", "cancelled"} => points'[t] = points[t] ]_vars

\* C9: within a session the sequence numbers are strictly increasing in
\* insertion order, hence pairwise distinct.
C9_SequenceIncreasing ==
    \A t \in Sessions : \A i, j \in 1..Len(points[t]) :
        i < j => points[t][i] < points[t][j]

\* Sample k of the track is farther from the segment than the tolerance.
OffAt(tr, s, k) == ~OnSegment(tr[k], s)

\* Two consecutive off-segment samples lie within positions a..b.
DoubleOff(tr, s, a, b) == \E k \in a..(b - 1) : OffAt(tr, s, k) /\ OffAt(tr, s, k + 1)

\* Exactly one off-segment sample lies within positions a..b.
SingleOff(tr, s, a, b) ==
    /\ \E k \in a..b : OffAt(tr, s, k)
    /\ ~DoubleOff(tr, s, a, b)

Least(S) == CHOOSE x \in S : \A y \in S : x <= y
StartsFrom(tr, s, i) == { k \in i..Len(tr) : NearStart(tr[k], s) }
EndsFrom(tr, s, i) == { k \in i..Len(tr) : NearEnd(tr[k], s) }

\* What an attempt entered at sample e comes to when nothing earlier
\* interferes: the first end-point sample after e closes it unless two
\* consecutive off-segment samples come before.
AttemptCompletes(tr, s, e) ==
    /\ EndsFrom(tr, s, e + 1) # {}
    /\ ~DoubleOff(tr, s, e + 1, Least(EndsFrom(tr, s, e + 1)) - 1)

\* Where the attempt entered at e is invalidated: the second of the first
\* two consecutive off-segment samples after e.
InvalidationPoints(tr, s, e) ==
    { j \in (e + 2)..Len(tr) : OffAt(tr, s, j - 1) /\ OffAt(tr, s, j) }

\* C11: an attempt whose gaps are single off-segment samples completes at
\* the first end-point sample; no candidate spans two consecutive
\* off-segment samples; after an invalidation the search resumes with the
\* first start-point sample after the invalidation point, and the attempt
\* entered there decides the outcome when it completes or when no entry
\* is left.
C11_NoiseTolerance ==
    matcher.done =>
      LET tr == matcher.track
          s  == matcher.segment
          c  == matcher.cand
      IN /\ c # NoTraversal => ~DoubleOff(tr, s, c[1] + 1, c[2] - 1)
         /\ (Len(tr) >= 2 /\ StartsFrom(tr, s, 1) # {}) =>
              LET e == Least(StartsFrom(tr, s, 1))
              IN IF AttemptCompletes(tr, s, e)
                 THEN c = << e, Least(EndsFrom(tr, s, e + 1)) >>
                 ELSE InvalidationPoints(tr, s, e) # {} =>
                        LET j == Least(InvalidationPoints(tr, s, e))
                        IN IF StartsFrom(tr, s, j + 1) = {} THEN c = NoTraversal
                           ELSE LET e2 == Least(StartsFrom(tr, s, j + 1))
                                IN AttemptCompletes(tr, s, e2) =>
                                     c = << e2, Least(EndsFrom(tr, s, e2 + 1)) >>

\* The first attempt was invalidated by two off-segment samples, and the
\* candidate found afterwards absorbs a single off-segment sample.
C11_Witness ==
    /\ matcher.done
    /\ matcher.cand # NoTraversal
    /\ SingleOff(matcher.track, matcher.segment, matcher.cand[1] + 1, matcher.cand[2] - 1)
    /\ \E e \in 1..(matcher.cand[1] - 1) :
         /\ NearStart(matcher.track[e], matcher.segment)
         /\ DoubleOff(matcher.track, matcher.segment, e + 1, matcher.cand[1] - 1)

ZoneAt(tr, s, k) == tr[k].zone[s]

\* The track runs the segment backwards: it meets the end point, and every
\* start-point sample comes after every end-point sample.
ReversePass(tr, s) ==
    /\ \E k \in 1..Len(tr) : ZoneAt(tr, s, k) = "end"
    /\ \E k \in 1..Len(tr) : ZoneAt(tr, s, k) = "start"
    /\ \A i, j \in 1..Len(tr) :
         (ZoneAt(tr, s, i) = "end" /\ ZoneAt(tr, s, j) = "start") => i < j

\* C12: every candidate enters at a sample near the start point and exits
\* at a later sample near the end point; a track that passes the segment
\* from its end point to its start point yields no candidate.
C12_Direction ==
    matcher.done =>
      LET tr == matcher.track
          s  == matcher.segment
          c  == matcher.cand
      IN /\ c # NoTraversal =>
              /\ c[1] < c[2]
              /\ ZoneAt(tr, s, c[1]) = "start"
              /\ ZoneAt(tr, s, c[2]) = "end"
         /\ ReversePass(tr, s) => c = NoTraversal

\* The matcher has run on a track that goes from the end point over the
\* segment to the start point.
C12_Witness ==
    /\ matcher.done
    /\ ReversePass(matcher.track, matcher.segment)
    /\ \E k \in 2..(Len(matcher.track) - 1) :
         /\ ZoneAt(matcher.track, matcher.segment, k) = "on"
         /\ ZoneAt(matcher.track, matcher.segment, k - 1) = "end"
         /\ ZoneAt(matcher.track, matcher.segment, k + 1) = "start"

\* A completed traversal: from a start-point sample to a later end-point
\* sample with no two consecutive off-segment samples in between.
CleanPass(tr, s, e, x) ==
    /\ e < x
    /\ ZoneAt(tr, s, e) = "start"
    /\ ZoneAt(tr, s, x) = "end"
    /\ ~DoubleOff(tr, s, e + 1, x - 1)

\* C13: the matcher returns nothing or one candidate; the candidate is a
\* completed traversal and the first one in sequence order: no completed
\* traversal of the track exits earlier, nor exits at the same sample from
\* an earlier entry; a track of fewer than 2 samples yields nothing.
C13_FirstTraversal ==
    matcher.done =>
      LET tr == matcher.track
          s  == matcher.segment
          c  == matcher.cand
      IN /\ Len(c) \in {0, 2}
         /\ Len(tr) < 2 => c = NoTraversal
         /\ c # NoTraversal => CleanPass(tr, s, c[1], c[2])
         /\ \A e, x \in 1..Len(tr) :
              CleanPass(tr, s, e, x) =>
                  /\ c # NoTraversal
                  /\ c[2] < x \/ (c[2] = x /\ c[1] <= e)

\* The track completes the segment a second time after the candidate.
C13_Witness ==
    /\ matcher.done
    /\ matcher.cand # NoTraversal
    /\ \E e, x \in (matcher.cand[2] + 1)..Len(matcher.track) :
         CleanPass(matcher.track, matcher.segment, e, x)

\* The track of session t completes segment s.
Traversed(t, s) == MatchSegment(Track(t), s) # NoTraversal

\* Matching segment s for session t raises a DataIntegrityFault.
Faulty(t, s) ==
    /\ Traversed(t, s)
    /\ MalformedGeometry(s) \/ Duration(Track(t), MatchSegment(Track(t), s)) <= 0

HasRecord(recs, s, t) == \E r \in recs : r.segment = s /\ r.session = t

\* C14: a run on a completed session goes on to record every traversed
\* segment that raises no fault, whatever faults the other segments raise,
\* and when it returns each of them has its record while no faulty one
\* has; a storage failure ends the run and removes nothing, and no step
\* ever removes a record.
C14_FaultIsolation ==
    [][ /\ records \subseteq records'
        /\ \A p \in Procs :
             /\ (mr[p].pc = "idle" /\ mr'[p].pc = "match") =>
                   mr'[p].todo = { s \in Segments : Traversed(mr'[p].session, s)
                                                    /\ ~Faulty(mr'[p].session, s) }
             /\ MatchAndRecordReturn(p) =>
                   \A s \in Segments :
                       HasRecord(records, s, mr[p].session)
                           <=> (Traversed(mr[p].session, s) /\ ~Faulty(mr[p].session, s))
             /\ StorageUnavailable(p) => records' = records
      ]_vars

\* A session whose track crosses a segment of malformed geometry and a
\* session with a zero-duration candidate both have a record on another
\* segment, and all runs are over.
C14_Witness ==
    /\ \A p \in Procs : mr[p].pc = "idle"
    /\ \E t \in Sessions, s \in Segments :
         /\ Faulty(t, s) /\ MalformedGeometry(s)
         /\ \E r \in records : r.session = t
    /\ \E t \in Sessions, s \in Segments :
         /\ Faulty(t, s) /\ ~MalformedGeometry(s)
         /\ \E r \in records : r.session = t

\* C15: the response of my-records holds each record of the requested
\* segment that belongs to the caller exactly once, nothing else, in
\* non-decreasing duration order.
C15_OwnRecordsOnly ==
    [][ \A s \in Segments, u \in Users :
          GetUserRecords(s, u) =>
            /\ { mine'.rows[i].id : i \in 1..Len(mine'.rows) }
                  = { r.id : r \in { x \in records : x.segment = s /\ x.user = u } }
            /\ \A i, j \in 1..Len(mine'.rows) :
                 i < j => /\ mine'.rows[i].id # mine'.rows[j].id
                          /\ mine'.rows[i].durationSeconds <= mine'.rows[j].durationSeconds
            /\ \A i \in 1..Len(mine'.rows) :
                 RecordById(records, mine'.rows[i].id).duration = mine'.rows[i].durationSeconds
      ]_vars

\* A user reads two records of their own, of different durations, on a
\* segment where another user has a record too.
C15_Witness ==
    /\ Len(mine.rows) = 2
    /\ mine.rows[1].durationSeconds < mine.rows[2].durationSeconds
    /\ \E r \in records : r.segment = mine.segment /\ r.user # mine.user

\* C16: every segment of the catalog has at least 2 distinct centerline
\* points and a length above 0.
C16_SegmentInvariant ==
    \A g \in catalog :
        /\ Cardinality({ g.route[i] : i \in 1..Len(g.route) }) >= 2
        /\ g.distance_km > 0

\* C17: a session's status changes only along active -> paused,
\* paused -> active, active or paused -> completed and active or paused ->
\* cancelled; completed and cancelled are never left.
C17_StatusLifecycle ==
    [][ \A t \in Sessions :
          status'[t] # status[t] =>
              << status[t], status'[t] >> \in
                  { << "active", "paused" >>, << "paused", "active" >>,
                    << "active", "completed" >>, << "paused", "completed" >>,
                    << "active", "cancelled" >>, << "paused", "cancelled" >> } ]_vars

\* The primary rows of user u.
PrimaryOf(rows, u) == { i \in VehiclesOf(rows, u) : rows[i].is_primary }

(***************************************************************************)
(* C18: at every moment each user has at most one vehicle row with         *)
(* is_primary = true, whatever vehicle create, delete and set-primary      *)
(* requests have run, and when a set-primary(id) request commits, id is    *)
(* that single primary row of its user.                                    *)
(***************************************************************************)
C18_SinglePrimary ==
    /\ [](\A u \in Users : Cardinality(PrimaryOf(vehicles, u)) <= 1)
    /\ [][\A q \in Reqs : SetPrimaryCommit(q) =>
                PrimaryOf(vehicles', vreq[q].user) = {vreq[q].id}]_vars

\* C18 witness: a user with three vehicle rows, one of them deleted, whose
\* primary row is not the first created: a set-primary has committed.
C18_Witness ==
    \E u \in Users :
        /\ Cardinality(VehiclesOf(vehicles, u)) = 3
        /\ \E i \in VehiclesOf(vehicles, u) : ~vehicles[i].is_active
        /\ \E i \in PrimaryOf(vehicles, u) : i # Least(VehiclesOf(vehicles, u))
        /\ \A q \in Reqs : vreq[q].op = "none"

(***************************************************************************)
(* C19: POST /sessions with a vehicle that does not exist, is not active   *)
(* or belongs to another user fails with BadRequest and creates no session *)
(* row, and the vehicle of every session row is an active vehicle of the   *)
(* session's owner at the moment the row is created.                       *)
(***************************************************************************)
C19_ActiveOwnVehicle ==
    [][\A q \in Reqs :
         /\ \A u \in Users, v \in VehicleIds :
               StartSessionVehicle(q, u, v) /\ ~ActiveVehicle(vehicles, v, u) =>
                   vreq'[q].error = "BadRequest" /\ started' = started
         /\ StartSessionInsert(q) =>
               ActiveVehicle(vehicles, vreq[q].id, vreq[q].user)]_vars

(***************************************************************************)
(* C20: GET /sessions/:id returns a session whose visibility is 'private'  *)
(* to its owner only, and a session whose visibility is 'friends' to its   *)
(* owner or to a user with an accepted friendship with the owner only;     *)
(* every other caller, authenticated or not, is answered Forbidden.        *)
(***************************************************************************)
C20_VisibilityEnforced ==
    [][view'.pc = "idle" /\ view' # view /\ view'.caller # SessionUser(view'.session) =>
          /\ view'.visibility = "private" => view'.reply = "Forbidden"
          /\ view'.visibility = "friends" =>
                IF view'.caller # 0 /\ AcceptedFriends(friendships, view'.caller,
                                                        SessionUser(view'.session))
                THEN view'.reply = "session" ELSE view'.reply = "Forbidden"]_vars

(***************************************************************************)
(* C22: at every moment each user has at most one session whose status is *)
(* active or paused, also when start requests of the user overlap, and a   *)
(* start request that finds such a session fails with BadRequest and       *)
(* creates nothing.  Every row of started is an active session.            *)
(***************************************************************************)
C22_OneLiveSession ==
    /\ [](\A u \in Users : Cardinality({ i \in DOMAIN started : started[i].user = u }) <= 1)
    /\ [][\A q \in Reqs :
             StartSessionActive(q) /\ (\E i \in DOMAIN started : started[i].user = vreq[q].user)
                 => vreq'[q].error = "BadRequest" /\ started' = started]_vars

\* The completed sessions of user u, and those driven with vehicle v.
CompletedOf(u) == { t \in Sessions : SessionUser(t) = u /\ status[t] = "completed" }
CompletedWith(v) == { t \in Sessions : SessionVehicle(t) = v /\ status[t] = "completed" }

(***************************************************************************)
(* C23: each session is counted at most once in the totals of its owner    *)
(* and of its vehicle: total_sessions never exceeds the number of          *)
(* completed sessions, also when complete requests for one session         *)
(* overlap, and a cancelled session adds nothing.                          *)
(***************************************************************************)
C23_CountedOnce ==
    /\ \A u \in Users : totalUser[u] <= Cardinality(CompletedOf(u))
    /\ \A t \in Sessions : totalVehicle[SessionVehicle(t)]
                               <= Cardinality(CompletedWith(SessionVehicle(t)))

\* The active rows of user u and, among them, the primary ones.
ActiveOf(rows, u) == { i \in VehiclesOf(rows, u) : rows[i].is_active }
ActivePrimaryOf(rows, u) == { i \in ActiveOf(rows, u) : rows[i].is_primary }

(***************************************************************************)
(* C26: when no vehicle request is running, a user with at least one       *)
(* active vehicle has exactly one active primary vehicle; a delete of the  *)
(* primary vehicle promotes another one, and a vehicle created while the   *)
(* user has no active vehicle is inserted and is primary.                  *)
(***************************************************************************)
C26_ActivePrimary ==
    /\ []((\A q \in Reqs : vreq[q].op = "none") =>
            \A u \in Users : ActiveOf(vehicles, u) # {} =>
                                Cardinality(ActivePrimaryOf(vehicles, u)) = 1)
    /\ [][\A q \in Reqs :
             CreateVehicleInsert(q) /\ ActiveOf(vehicles, vreq[q].user) = {} =>
                 /\ Len(vehicles') = Len(vehicles) + 1
                 /\ vehicles'[Len(vehicles')].is_primary]_vars

(***************************************************************************)
(* C21: at every moment the friendships table holds at most one row per    *)
(* unordered pair of users and no row from a user to themselves; a friend  *)
(* request sent while a row of any status exists for the pair, in either   *)
(* direction, or sent to oneself, creates no row.                          *)
(***************************************************************************)
C21_OneRowPerPair ==
    /\ [](\A a \in Users, b \in Users :
            /\ Cardinality({ i \in DOMAIN frows : /\ frows[i].status # "gone"
                                                   /\ frows[i].requester \in {a, b}
                                                   /\ frows[i].addressee \in {a, b} }) <= 1
            /\ \A i \in DOMAIN frows : frows[i].status # "gone" =>
                   frows[i].requester # frows[i].addressee)
    /\ [][\A q \in Reqs :
             /\ (\E a \in Users : FriendRequestCheck(q, a, a)) => freq'[q].pc = "idle"
             /\ FriendRequestInsert(q)
                 /\ (\E i \in DOMAIN frows :
                        /\ frows[i].status # "gone"
                        /\ {frows[i].requester, frows[i].addressee}
                              = {freq[q].requester, freq[q].addressee})
                 => frows' = frows]_vars

\* C21 witness: a request for a pair whose row is rejected passed the
\* handler's check and its INSERT was refused by the index.
C21_Witness ==
    /\ \E q \in Reqs : freq[q].error = "23505"
    /\ \E i \in DOMAIN frows : frows[i].status = "rejected"
    /\ \E i \in DOMAIN frows : frows[i].status = "gone"

(***************************************************************************)
(* C24: a refresh token is exchanged at most once: of the refresh requests *)
(* presenting one token, overlapping ones included, at most one is         *)
(* answered with new tokens, and a request that presents a token already   *)
(* revoked is rejected with Unauthorized.                                  *)
(***************************************************************************)
C24_SingleUse ==
    /\ [](\A t \in DOMAIN tokens :
            Cardinality({ i \in DOMAIN tokens : tokens[i].from = t }) <= 1)
    /\ [][\A q \in Reqs, t \in DOMAIN tokens :
             RefreshSelect(q, t) /\ tokens[t].revoked =>
                 areq'[q].reply = "Unauthorized"]_vars

(***************************************************************************)
(* C25: once a logout of a user has completed, and until the user's next   *)
(* login or register, the user has no refresh token that is not revoked    *)
(* and no refresh request of the user is answered with new tokens, also    *)
(* when the refresh request was running during the logout.                 *)
(***************************************************************************)
C25_LogoutRevokesAll ==
    /\ [](\A u \in Users : loggedOut[u] =>
            \A i \in DOMAIN tokens : tokens[i].user = u => tokens[i].revoked)
    /\ [][\A q \in Reqs :
             RefreshInsert(q) => ~loggedOut[tokens[areq[q].token].user]]_vars

====
